---- MODULE Spec2Model ----
(***************************************************************************)
(* Wallet challenge/response authentication of the FST backend.           *)
(*                                                                         *)
(* The repository holds several revisions of the same routes and of the   *)
(* same middleware.  A deployment runs one revision of the auth routes    *)
(* (variable rev); the middleware revisions only read the state:          *)
(*   rev = "admin"      src/src/routes/admin.ts          (Prisma)          *)
(*   rev = "authRoutes" src/src/routes/authRoutes.ts     (Mongoose)        *)
(*   rev = "auth"       src/src/routes/auth.ts:108-254   (Mongoose)        *)
(*   rev = "server"     src/src/utils/solanaverify.ts    (in-memory Map)   *)
(*   mw  = "jwt"        src/src/middleware/auth.ts:1-55                    *)
(*   mw  = "prisma"     src/src/middleware/auth.ts:57-145                  *)
(*   mw  = "mongoose"   src/unnamed/part_007                               *)
(*   mw  = "list"       src/unnamed/part_009:1-74                          *)
(* The points and rewards routes (src/unnamed/part_012,                   *)
(* src/src/routes/transaction.ts) are modelled at their store accesses.   *)
(* Time is counted in milliseconds, the resolution of Date.               *)
(* crypto.randomBytes(16) is modelled as a value that never repeats.      *)
(* An Ed25519 signature is modelled by the key that made it and the text  *)
(* it was made over; what reaches the server is its wire encoding.        *)
(***************************************************************************)
EXTENDS Integers, FiniteSets, Sequences, TLC

\* ------------------------------------------------------------ bounds
MaxPeriods == 1      \* the clock runs over this many TTL periods
MaxDrift == 1        \* single milliseconds the clock may advance inside a period
MaxNonces == 2       \* challenges issued in one run

\* ------------------------------------------------------------ program constants
NONCE_TTL_SEC == 300
MsPerSec == 1000
SigBytes == 64
KeyBytes == 32
TokenDays == 30

TtlMs == NONCE_TTL_SEC * MsPerSec

\* ------------------------------------------------------------ addresses and keys
\* Addr1 and Addr2 are base58 encodings of 32-byte public keys; Short is
\* valid base58 that decodes to fewer than 32 bytes.
GoodAddresses == {"Addr1", "Addr2"}
Addresses == GoodAddresses
AnyAddresses == GoodAddresses \cup {"Short"}
NoParam == ""

bs58decodeLen(addr) == IF addr \in GoodAddresses THEN KeyBytes ELSE KeyBytes - 1

isSolanaAddress(addr) == bs58decodeLen(addr) = KeyBytes

\* The operator's allow-list: the literal list of the Prisma revisions and
\* the ADMIN_WALLETS environment variable of the Mongoose revisions.
ADMIN_WALLETS == {"Addr2"}

\* String.prototype.toLowerCase on the addresses of the model.
toLowerCase(s) ==
    CASE s = "Addr1" -> "addr1"
      [] s = "Addr2" -> "addr2"
      [] s = "Short" -> "short"
      [] OTHER -> s

isAdminWallet(address) ==
    toLowerCase(address) \in { toLowerCase(w) : w \in ADMIN_WALLETS }

listIncludes(address) == address \in ADMIN_WALLETS

\* ------------------------------------------------------------ challenge text
\* The template `FST login / Wallet / Nonce / Issued At / By signing ...`:
\* two texts are equal iff wallet, nonce and ISO timestamp are equal.
Message(walletAddress, nonce, isoTime) ==
    [wallet |-> walletAddress, nonce |-> nonce, issuedAt |-> isoTime]

\* Date.prototype.toISOString: millisecond resolution, one text per instant.
toISOString(date) == [iso |-> date]

OtherText == [wallet |-> NoParam, nonce |-> 0, issuedAt |-> [iso |-> 0]]

\* ------------------------------------------------------------ signatures on the wire
\* enc: how the client encoded the 64 signature bytes; chars: the number of
\* alphabet characters of the string (base64: 86 and padding; base58: 86..88).
Encodings == {"base64", "base58"}
Base64SigChars == (SigBytes * 8 + 5) \div 6
Base58SigChars == {Base64SigChars, Base64SigChars + 2}

WireSig(enc, signer, text, chars) ==
    [enc |-> enc, signer |-> signer, text |-> text, chars |-> chars]

NoKey == "nokey"

\* Buffer.from(signature, "base64"): never throws on a string; every base58
\* character is a base64 character, so a base58 string decodes to
\* floor(6*chars/8) bytes that are not the signature.
BufferFromBase64(signature) ==
    IF signature.enc = "base64"
    THEN [len |-> (signature.chars * 6) \div 8, signer |-> signature.signer,
          text |-> signature.text]
    ELSE [len |-> (signature.chars * 6) \div 8, signer |-> NoKey,
          text |-> OtherText]

\* A verification that checks the signer and not the text signed.
naclVerifySignerOnly(msg, sig, pubkeyLen, pubkey) ==
    IF sig.len # SigBytes THEN "throw"
    ELSE IF pubkeyLen # KeyBytes THEN "throw"
    ELSE IF sig.signer = pubkey THEN "true" ELSE "false"

\* nacl.sign.detached.verify(msg, sig, publicKey): throws on a wrong size.
naclVerify(msg, sig, pubkeyLen, pubkey) ==
    IF sig.len # SigBytes THEN "throw"
    ELSE IF pubkeyLen # KeyBytes THEN "throw"
    ELSE IF sig.signer = pubkey /\ sig.text = msg THEN "true" ELSE "false"

\* verifySolanaSignature of utils/solanaverify.ts: bs58.decode is the only
\* decoding; it throws on the padding of a base64 string and nacl throws on
\* a wrong size, and either exception is turned into false.
verifySolanaSignature(address, message, signature) ==
    IF signature.enc # "base58" THEN FALSE
    ELSE IF bs58decodeLen(address) # KeyBytes THEN FALSE
    ELSE signature.signer = address /\ signature.text = message

\* ------------------------------------------------------------ state
VARIABLES rev, now, nonceCtr, nonces, issued, accounts, sessions, resp, gate,
          inflight, db, calls

vars == <<rev, now, nonceCtr, nonces, issued, accounts, sessions, resp, gate,
         inflight, db, calls>>

Revs == {"admin", "authRoutes", "auth", "server"}

NoToken == [wallet |-> NoParam, role |-> "", iat |-> 0, exp |-> 0]
NoSig == WireSig("", NoKey, OtherText, 0)

Response(op, addr, status, error, token, role) ==
    [op |-> op, addr |-> addr, status |-> status, error |-> error,
     token |-> token, role |-> role]

NoResponse == Response("", NoParam, 0, "", NoToken, "")

\* ------------------------------------------------------------ session tokens
\* The Authorization header of a request: absent, a string that is no JWT,
\* or a JWT signed with the server secret or with another one.  The payload
\* names its subject as `wallet` (routes/admin.ts:134) or as `userId`
\* (AuthUser, middleware/auth.ts:7); a payload may carry no role.
JWT_SECRET == "server"
Roles == {"USER", "ADMIN"}

Bearer(kind, secret, wallet, userId, role, exp) ==
    [kind |-> kind, secret |-> secret, wallet |-> wallet, userId |-> userId,
     role |-> role, exp |-> exp]

NoHeader == Bearer("none", "", NoParam, NoParam, "", 0)
NotAJwt == Bearer("malformed", "", NoParam, NoParam, "", 0)

\* The headers a client can send at instant t: none, no JWT, a forged JWT,
\* and server-signed JWTs that expire at this second or at the next one.
Bearers(t) ==
    {NoHeader, NotAJwt}
      \cup { Bearer("jwt", "other", a, NoParam, "ADMIN", (t \div MsPerSec) + 1) :
                 a \in GoodAddresses }
      \cup { Bearer("jwt", JWT_SECRET, a, NoParam, r, e) :
                 a \in GoodAddresses, r \in Roles \cup {""},
                 e \in {t \div MsPerSec, (t \div MsPerSec) + 1} }
      \cup { Bearer("jwt", JWT_SECRET, NoParam, a, r, (t \div MsPerSec) + 1) :
                 a \in GoodAddresses, r \in Roles }

\* req.auth, the AuthContext a middleware attaches to the request.
AuthContext(wallet, userId, role) == [wallet |-> wallet, userId |-> userId, role |-> role]
NoAuth == AuthContext(NoParam, NoParam, "")

\* What a guarded route did with a request: the Authorization header it
\* carried, the status the guard answered with (0 when it answered nothing),
\* req.auth, and whether the protected handler ran.
Gate(mw, guard, bearer, status, auth, ran) ==
    [mw |-> mw, guard |-> guard, bearer |-> bearer, status |-> status,
     auth |-> auth, ran |-> ran]
NoGate == Gate("", "", NoHeader, 0, NoAuth, FALSE)

\* ------------------------------------------------------------ requests in flight
\* Verify requests that are being handled at the same time: each has looked
\* the challenge up (await findUnique / findOne) and holds what it read.
MaxRequests == 2
Procs == 1 .. MaxRequests

Request(pc, addr, text, createdAt, sig) ==
    [pc |-> pc, addr |-> addr, text |-> text, createdAt |-> createdAt,
     sig |-> sig]

IdleRequest == Request("idle", NoParam, OtherText, 0, NoSig)
NoRequests == [p \in Procs |-> IdleRequest]

\* A write that keeps the record a key already has.
PutIfAbsent(store, key, value) ==
    [k \in DOMAIN store \cup {key} |->
        IF k \in DOMAIN store THEN store[k] ELSE value]

\* upsert: the record of the key is created or replaced.
Put(store, key, value) ==
    [k \in DOMAIN store \cup {key} |-> IF k = key THEN value ELSE store[k]]

Remove(store, key) == [k \in DOMAIN store \ {key} |-> store[k]]

Empty == [k \in {} |-> 0]

\* ------------------------------------------------------------ points and rewards
\* The documents of routes/reward.ts (part_012) and routes/transaction.ts:
\* one Reward, the points of the User documents, and the Transaction log.
\* The User schema with the points field is not among the sources; points
\* is taken to be the Number path that the handlers read and save.
MaxPoints == 2       \* points a user starts with, and the price of the reward
MaxStock == 2        \* inventory and claimLimit the reward is created with

Reward(pointsRequired, inventory, claimLimit, claimedBy) ==
    [pointsRequired |-> pointsRequired, inventory |-> inventory,
     claimLimit |-> claimLimit, claimedBy |-> claimedBy]

Transaction(userWallet, type, amount) ==
    [userWallet |-> userWallet, type |-> type, amount |-> amount]

Db(reward, points, txs) == [reward |-> reward, points |-> points, txs |-> txs]

NoDb == Db(Reward(1, 0, 1, Empty), Empty, <<>>)

\* req.body.amount of /spend: given or not, and its value.
Amount(given, value) == [given |-> given, value |-> value]
NoAmount == Amount(FALSE, 0)

\* A handler invocation: where it is, the wallet of req.auth, the amount of
\* the body, the documents it holds in memory, and its answer.
Call(pc, route, wallet, amount, reward, points, status, error) ==
    [pc |-> pc, route |-> route, wallet |-> wallet, amount |-> amount,
     reward |-> reward, points |-> points, status |-> status, error |-> error]

IdleCall == Call("idle", "", NoParam, NoAmount, NoDb.reward, 0, 0, "")
NoCalls == [p \in Procs |-> IdleCall]

Init ==
    /\ rev \in Revs
    /\ now = 0
    /\ nonceCtr = 0
    /\ nonces = Empty
    /\ issued = Empty
    /\ accounts = Empty
    /\ sessions = Empty
    /\ resp = NoResponse
    /\ gate = NoGate
    /\ inflight = NoRequests
    /\ db = NoDb
    /\ calls = NoCalls

\* ------------------------------------------------------------ clock
\* The clock advances by one millisecond or by one TTL.
Tick ==
    /\ \/ /\ now % TtlMs < MaxDrift
          /\ now' = now + 1
       \/ /\ now + TtlMs <= MaxPeriods * TtlMs + MaxDrift
          /\ now' = now + TtlMs
    /\ UNCHANGED <<rev, nonceCtr, nonces, issued, accounts, sessions, resp, gate, inflight,
                   db, calls>>

\* The instants a second `new Date()` of the same handler can return.
LaterReads == { t \in {now, now + 1} : t = now \/ now % TtlMs < MaxDrift }

\* ------------------------------------------------------------ challenge store
\* (Date.now() - createdAt) / 1000 > NONCE_TTL_SEC
Expired(createdAt, t) == (t - createdAt) > NONCE_TTL_SEC * MsPerSec

\* crypto.randomBytes(16).toString("hex")
randomNonce == nonceCtr + 1

\* The text the verify route checks the signature against.
StoredText(a) ==
    IF rev \in {"authRoutes", "server"}
    THEN nonces[a].challenge
    ELSE Message(a, nonces[a].nonce, toISOString(nonces[a].createdAt))

\* POST /auth/nonce of routes/admin.ts and of routes/auth.ts: the text is
\* built with one `new Date()`, the record stored with a later one.
NonceRecord(nonce, text, createdAt) == [nonce |-> nonce, createdAt |-> createdAt]

\* POST /auth/challenge of routes/authRoutes.ts stores the text itself.
ChallengeRecord(nonce, text, createdAt) == [challenge |-> text, createdAt |-> createdAt]

Nonce(walletAddress) ==
    /\ rev \in {"admin", "auth"}
    /\ IF walletAddress = NoParam
       THEN /\ resp' = Response("nonce", walletAddress, 400,
                                "walletAddress required", NoToken, "")
            /\ UNCHANGED <<now, nonceCtr, nonces, issued>>
       ELSE /\ nonceCtr < MaxNonces
            /\ \E createdAt \in LaterReads :
                 LET nonce == randomNonce
                     message == Message(walletAddress, nonce, toISOString(now))
                 IN /\ nonces' = Put(nonces, walletAddress,
                                     NonceRecord(nonce, message, createdAt))
                    /\ issued' = Put(issued, walletAddress, message)
                    /\ now' = createdAt
                    /\ nonceCtr' = nonce
                    /\ resp' = Response("nonce", walletAddress, 200, "",
                                        NoToken, "")
    /\ UNCHANGED <<rev, accounts, sessions, gate, inflight,
                   db, calls>>

Challenge(walletAddress) ==
    /\ rev = "authRoutes"
    /\ IF walletAddress = NoParam
       THEN /\ resp' = Response("nonce", walletAddress, 400,
                                "walletAddress required", NoToken, "")
            /\ UNCHANGED <<now, nonceCtr, nonces, issued>>
       ELSE IF ~isSolanaAddress(walletAddress)
       THEN /\ resp' = Response("nonce", walletAddress, 400,
                                "invalid_wallet_address", NoToken, "")
            /\ UNCHANGED <<now, nonceCtr, nonces, issued>>
       ELSE /\ nonceCtr < MaxNonces
            /\ \E createdAt \in LaterReads :
                 LET nonce == randomNonce
                     challenge == Message(walletAddress, nonce, toISOString(now))
                 IN /\ nonces' = Put(nonces, walletAddress,
                                     ChallengeRecord(nonce, challenge, createdAt))
                    /\ issued' = Put(issued, walletAddress, challenge)
                    /\ now' = createdAt
                    /\ nonceCtr' = nonce
                    /\ resp' = Response("nonce", walletAddress, 200, "",
                                        NoToken, "")
    /\ UNCHANGED <<rev, accounts, sessions, gate, inflight,
                   db, calls>>

\* `Sign this message to verify your wallet: ${randomUUID()}`
ServerChallenge(uuid) ==
    [wallet |-> NoParam, nonce |-> uuid, issuedAt |-> [iso |-> 0]]

\* walletNonces.set(address, challenge): the Map holds the text alone.
MapEntry(challenge) == [challenge |-> challenge]

\* app.post("/auth/challenge") of the server of utils/solanaverify.ts
ChallengeServer(address) ==
    /\ rev = "server"
    /\ IF address = NoParam
       THEN /\ resp' = Response("nonce", address, 400,
                                "Missing wallet address", NoToken, "")
            /\ UNCHANGED <<nonceCtr, nonces, issued>>
       ELSE /\ nonceCtr < MaxNonces
            /\ LET challenge == ServerChallenge(randomNonce)
               IN /\ nonces' = Put(nonces, address, MapEntry(challenge))
                  /\ issued' = Put(issued, address, challenge)
                  /\ nonceCtr' = randomNonce
                  /\ resp' = Response("nonce", address, 200, "", NoToken, "")
    /\ UNCHANGED <<rev, now, accounts, sessions, gate, inflight,
                   db, calls>>

\* A challenge request whose address is drawn from S, or is missing.
RequestChallengeFrom(S) ==
    \E walletAddress \in S \cup {NoParam} :
        \/ Nonce(walletAddress)
        \/ Challenge(walletAddress)
        \/ ChallengeServer(walletAddress)

RequestChallenge == RequestChallengeFrom(Addresses)

\* ------------------------------------------------------------ verify
\* What a client can submit as the signature for address a: made with
\* either key over the text the server holds, the text the server
\* returned, or any other text, in either encoding; or nothing.
Texts(a) ==
    {OtherText}
      \cup (IF a \in DOMAIN issued THEN {issued[a]} ELSE {})
      \cup (IF a \in DOMAIN nonces THEN {StoredText(a)} ELSE {})

SigInputs(a) ==
    {NoSig}
      \cup { WireSig("base64", k, t, Base64SigChars) :
                 k \in GoodAddresses, t \in Texts(a) }
      \cup { WireSig("base58", k, t, c) :
                 k \in GoodAddresses, t \in Texts(a), c \in Base58SigChars }

\* An outcome of a verify handler: the response and the two stores after it.
Outcome(r, n, acc) == [resp |-> r, nonces |-> n, accounts |-> acc]

\* jwt.sign(payload, JWT_SECRET, { expiresIn: "30d" }): iat and exp are in
\* whole seconds, iat = floor(Date.now() / 1000).
TokenSec == TokenDays * 24 * 60 * 60
jwtSign(wallet, role, t) ==
    [wallet |-> wallet, role |-> role, iat |-> t \div MsPerSec,
     exp |-> (t \div MsPerSec) + TokenSec]

\* prisma.wallet.findUnique / create: a new record has the default role.
findOrCreateWallet(a) ==
    IF a \in DOMAIN accounts THEN accounts ELSE Put(accounts, a, "USER")

\* User.findOne / User.create({ wallet, role: isAdminWallet ? ADMIN : USER })
findOrCreateUser(a) ==
    IF a \in DOMAIN accounts THEN accounts
    ELSE Put(accounts, a, IF isAdminWallet(a) THEN "ADMIN" ELSE "USER")

\* A verify that forgets to delete the nonce.
consumeNothing(store, a) == store

\* The nonce is removed so that it cannot be reused.
consume(store, a) == Remove(store, a)

\* router.post("/verify") of routes/admin.ts
verifyAdmin(a, sig) ==
    IF a = NoParam \/ sig = NoSig
    THEN Outcome(Response("verify", a, 400, "missing_params", NoToken, ""),
                 nonces, accounts)
    ELSE IF a \notin DOMAIN nonces
    THEN Outcome(Response("verify", a, 400, "nonce_missing", NoToken, ""),
                 nonces, accounts)
    ELSE IF Expired(nonces[a].createdAt, now)
    THEN Outcome(Response("verify", a, 400, "nonce_expired", NoToken, ""),
                 Remove(nonces, a), accounts)
    ELSE LET message == Message(a, nonces[a].nonce,
                                toISOString(nonces[a].createdAt))
             valid == naclVerify(message, BufferFromBase64(sig),
                                 bs58decodeLen(a), a)
             role == IF listIncludes(a) THEN "ADMIN" ELSE "USER"
         IN IF valid = "throw"
            THEN Outcome(Response("verify", a, 500, "server_error",
                                  NoToken, ""), nonces, accounts)
            ELSE IF valid = "false"
            THEN Outcome(Response("verify", a, 401, "invalid_signature",
                                  NoToken, ""), nonces, accounts)
            ELSE Outcome(Response("verify", a, 200, "",
                                  jwtSign(a, role, now), role),
                         consume(nonces, a), findOrCreateWallet(a))

\* router.post("/verify") of routes/authRoutes.ts
verifyAuthRoutes(a, sig) ==
    IF a = NoParam \/ sig = NoSig
    THEN Outcome(Response("verify", a, 400,
                          "walletAddress and signature required", NoToken, ""),
                 nonces, accounts)
    ELSE IF ~isSolanaAddress(a)
    THEN Outcome(Response("verify", a, 400, "invalid_wallet_address",
                          NoToken, ""), nonces, accounts)
    ELSE IF a \notin DOMAIN nonces
    THEN Outcome(Response("verify", a, 400, "No challenge found",
                          NoToken, ""), nonces, accounts)
    ELSE IF Expired(nonces[a].createdAt, now)
    THEN Outcome(Response("verify", a, 400, "Challenge expired",
                          NoToken, ""), Remove(nonces, a), accounts)
    ELSE LET verified == naclVerify(nonces[a].challenge, BufferFromBase64(sig),
                                    bs58decodeLen(a), a)
             role == IF isAdminWallet(a) THEN "ADMIN" ELSE "USER"
         IN IF verified = "throw"
            THEN Outcome(Response("verify", a, 500, "Verification failed",
                                  NoToken, ""), nonces, accounts)
            ELSE IF verified = "false"
            THEN Outcome(Response("verify", a, 401, "Invalid signature",
                                  NoToken, ""), nonces, accounts)
            ELSE Outcome(Response("verify", a, 200, "",
                                  jwtSign(a, role, now), role),
                         consume(nonces, a), accounts)

\* router.post("/verify") of routes/auth.ts (Mongoose revision): the age of
\* the stored nonce is never looked at.
verifyAuth(a, sig) ==
    IF a = NoParam \/ sig = NoSig
    THEN Outcome(Response("verify", a, 400, "missing_params", NoToken, ""),
                 nonces, accounts)
    ELSE IF a \notin DOMAIN nonces
    THEN Outcome(Response("verify", a, 400, "nonce_missing", NoToken, ""),
                 nonces, accounts)
    ELSE LET message == Message(a, nonces[a].nonce,
                                toISOString(nonces[a].createdAt))
             valid == naclVerify(message, BufferFromBase64(sig),
                                 bs58decodeLen(a), a)
             users == findOrCreateUser(a)
         IN IF valid = "throw"
            THEN Outcome(Response("verify", a, 500, "server_error",
                                  NoToken, ""), nonces, accounts)
            ELSE IF valid = "false"
            THEN Outcome(Response("verify", a, 401, "invalid_signature",
                                  NoToken, ""), nonces, accounts)
            ELSE Outcome(Response("verify", a, 200, "",
                                  jwtSign(a, users[a], now), users[a]),
                         consume(nonces, a), users)

\* process.env.ADMIN_WALLET_ADDRESS
ADMIN_WALLET_ADDRESS == "Addr2"

\* A token that lives one day.
issueJwtOneDay(userId, role, t) ==
    [wallet |-> NoParam, userId |-> userId, role |-> role,
     iat |-> t \div MsPerSec,
     exp |-> (t \div MsPerSec) + 24 * 60 * 60]

\* issueJwt of middleware/auth.ts:71-73:
\* jwt.sign(payload, JWT_SECRET, { expiresIn: "30d" })
issueJwt30d(wallet, role, t) == jwtSign(wallet, role, t)

\* issueJwt({ userId, role }) of middleware/auth.ts:23-25:
\* jwt.sign(payload, JWT_SECRET, { expiresIn: "7d" })
IssueDays == 7
issueJwt(userId, role, t) ==
    [wallet |-> NoParam, userId |-> userId, role |-> role,
     iat |-> t \div MsPerSec,
     exp |-> (t \div MsPerSec) + IssueDays * 24 * 60 * 60]

\* A request body without a message.
NoMessage == [wallet |-> NoParam, nonce |-> -1, issuedAt |-> [iso |-> 0]]

\* An outcome of the server's verify handler, which also writes User.token.
OutcomeServer(r, n, acc, ses) ==
    [resp |-> r, nonces |-> n, accounts |-> acc, sessions |-> ses]

\* app.post("/auth/verify") of the server of utils/solanaverify.ts: the
\* client sends the message back; base64 is the only decoding; the User
\* record is upserted with the token and the role.
verifyServer(a, sig, message) ==
    IF a = NoParam \/ sig = NoSig \/ message = NoMessage
    THEN OutcomeServer(Response("verify", a, 400, "Missing required fields",
                                NoToken, ""), nonces, accounts, sessions)
    ELSE IF a \notin DOMAIN nonces
    THEN OutcomeServer(Response("verify", a, 400, "No challenge found",
                                NoToken, ""), nonces, accounts, sessions)
    ELSE IF nonces[a].challenge # message
    THEN OutcomeServer(Response("verify", a, 400, "No challenge found",
                                NoToken, ""), nonces, accounts, sessions)
    ELSE LET isValid == naclVerify(message, BufferFromBase64(sig),
                                   bs58decodeLen(a), a)
             role == IF a = ADMIN_WALLET_ADDRESS THEN "ADMIN" ELSE "USER"
             token == issueJwt(a, role, now)
         IN IF isValid = "throw"
            THEN OutcomeServer(Response("verify", a, 500, "Server error",
                                        NoToken, ""), nonces, accounts, sessions)
            ELSE IF isValid = "false"
            THEN OutcomeServer(Response("verify", a, 401, "Invalid signature",
                                        NoToken, ""), nonces, accounts, sessions)
            ELSE OutcomeServer(Response("verify", a, 200, "", token, role),
                               consume(nonces, a), Put(accounts, a, role),
                               Put(sessions, a, token))

\* The verify route of the deployed revision; a client of the server
\* revision sends back the text it signed.
verify(a, sig) ==
    CASE rev = "admin" -> verifyAdmin(a, sig)
      [] rev = "authRoutes" -> verifyAuthRoutes(a, sig)
      [] rev = "auth" -> verifyAuth(a, sig)
      [] rev = "server" -> verifyServer(a, sig, sig.text)

\* The message field of the request body, which only the server revision
\* reads.
ServerMessages(a) ==
    IF rev = "server" THEN Texts(a) \cup {NoMessage} ELSE {NoMessage}

\* A verify request whose address is drawn from S, or is missing.
VerifyAndIssueFrom(S) ==
    \E a \in S \cup {NoParam} :
      \E sig \in SigInputs(a) :
        \E message \in ServerMessages(a) :
          \E out \in {IF rev = "server" THEN verifyServer(a, sig, message)
                      ELSE verify(a, sig)} :
             /\ resp' = out.resp
             /\ nonces' = out.nonces
             /\ accounts' = out.accounts
             /\ sessions' = IF rev = "server" THEN out.sessions ELSE sessions
             /\ UNCHANGED <<rev, now, nonceCtr, issued, gate, inflight,
                   db, calls>>

\* ------------------------------------------------------------ token checks
\* authHeader.startsWith("Bearer ")
hasBearer(bearer) == bearer.kind # "none"

\* A verification that never looks at exp.
jwtVerifyNoExpiry(bearer, t) ==
    IF bearer.kind # "jwt" THEN "throw"
    ELSE IF bearer.secret # JWT_SECRET THEN "throw"
    ELSE "ok"

\* jwt.verify(token, JWT_SECRET): throws on a string that is no JWT, on a
\* signature made with another secret, and once floor(now / 1000) >= exp.
jwtVerify(bearer, t) ==
    IF bearer.kind # "jwt" THEN "throw"
    ELSE IF bearer.secret # JWT_SECRET THEN "throw"
    ELSE IF (t \div MsPerSec) >= bearer.exp THEN "throw"
    ELSE "ok"

\* ------------------------------------------------------------ introspect
\* The token as the Authorization header a client sends it back in.
BearerOf(token) ==
    Bearer("jwt", JWT_SECRET, token.wallet,
           IF "userId" \in DOMAIN token THEN token.userId ELSE NoParam,
           token.role, token.exp)

\* The answer of POST /auth/introspect: the HTTP status, the ok / active
\* flag, the error text, and the wallet and role it reports.
Probe(status, active, error, wallet, role) ==
    [op |-> "introspect", addr |-> wallet, status |-> status, error |-> error,
     token |-> NoToken, role |-> role, active |-> active]

\* decoded.role || "USER"
roleOrUser(role) == IF role = "" THEN "USER" ELSE role

\* An introspect that answers USER for every valid token.
introspectAlwaysUser(bearer) ==
    IF ~hasBearer(bearer)
    THEN Probe(401, FALSE, "Missing or invalid Authorization header", NoParam, "")
    ELSE IF jwtVerify(bearer, now) = "throw"
    THEN Probe(401, FALSE, "Invalid or expired token", NoParam, "")
    ELSE Probe(200, TRUE, "", bearer.wallet, "USER")

\* router.post("/introspect") of routes/admin.ts: the role is the token's.
introspectAdmin(bearer) ==
    IF ~hasBearer(bearer)
    THEN Probe(401, FALSE, "Missing or invalid Authorization header", NoParam, "")
    ELSE IF jwtVerify(bearer, now) = "throw"
    THEN Probe(401, FALSE, "Invalid or expired token", NoParam, "")
    ELSE IF bearer.wallet = NoParam
    THEN Probe(500, FALSE, "server_error", NoParam, "")
    ELSE IF bearer.wallet \notin DOMAIN accounts
    THEN Probe(401, FALSE, "Wallet not found", NoParam, "")
    ELSE Probe(200, TRUE, "", bearer.wallet, roleOrUser(bearer.role))

\* router.post("/introspect") of routes/authRoutes.ts: no store is read.
introspectAuthRoutes(bearer) ==
    IF ~hasBearer(bearer)
    THEN Probe(401, FALSE, "Missing or invalid Authorization header", NoParam, "")
    ELSE IF jwtVerify(bearer, now) = "throw"
    THEN Probe(401, FALSE, "Invalid or expired token", NoParam, "")
    ELSE Probe(200, TRUE, "", bearer.wallet, roleOrUser(bearer.role))

\* router.post("/introspect") of routes/auth.ts:
\* role: decoded.role || user.role || "USER"
introspectAuth(bearer) ==
    IF ~hasBearer(bearer)
    THEN Probe(401, FALSE, "Missing or invalid Authorization header", NoParam, "")
    ELSE IF jwtVerify(bearer, now) = "throw"
    THEN Probe(401, FALSE, "Invalid or expired token", NoParam, "")
    ELSE IF bearer.wallet = NoParam
    THEN Probe(401, FALSE, "Invalid token payload", NoParam, "")
    ELSE IF bearer.wallet \notin DOMAIN accounts
    THEN Probe(401, FALSE, "Wallet not found", NoParam, "")
    ELSE Probe(200, TRUE, "", bearer.wallet,
               IF bearer.role # "" THEN bearer.role
               ELSE roleOrUser(accounts[bearer.wallet]))

\* User.findOne({ token })
findUserByToken(bearer) ==
    { a \in DOMAIN sessions : BearerOf(sessions[a]) = bearer }

\* app.post("/auth/introspect") of the server of utils/solanaverify.ts: the
\* token comes in the body and is looked up among the stored ones; it is
\* never verified.
introspectServer(bearer) ==
    IF ~hasBearer(bearer)
    THEN Probe(200, FALSE, "", NoParam, "USER")
    ELSE IF findUserByToken(bearer) = {}
    THEN Probe(200, FALSE, "", NoParam, "USER")
    ELSE LET user == CHOOSE a \in findUserByToken(bearer) : TRUE
         IN Probe(200, TRUE, "", user, accounts[user])

introspect(bearer) ==
    CASE rev = "admin" -> introspectAdmin(bearer)
      [] rev = "authRoutes" -> introspectAuthRoutes(bearer)
      [] rev = "auth" -> introspectAuth(bearer)
      [] rev = "server" -> introspectServer(bearer)

\* The tokens the server has handed out and a client still holds: the one
\* of the last verify and the ones stored on User records.
Held ==
    (IF resp.token # NoToken THEN {BearerOf(resp.token)} ELSE {})
      \cup { BearerOf(sessions[a]) : a \in DOMAIN sessions }

\* The tokens a client can present at this instant: the headers of
\* Bearers(now) and the tokens it holds.
Presentable == Bearers(now) \cup Held

\* What the clients of this run send to introspect: no header, a string
\* that is no token, or a token they hold.
Probed == {NoHeader, NotAJwt} \cup Held

Introspect ==
    \E bearer \in Probed :
        /\ resp' = introspect(bearer)
        /\ UNCHANGED <<rev, now, nonceCtr, nonces, issued, accounts, sessions, gate, inflight,
                   db, calls>>

VerifyAndIssue == VerifyAndIssueFrom(Addresses)

NextAuth == Tick \/ RequestChallenge \/ VerifyAndIssue \/ Introspect

Spec == Init /\ [][NextAuth]_vars

\* The Account records a deployment can hold: created by verify, their
\* role set by verify or by the operator.
AccountStates ==
    UNION { [S -> Roles] : S \in SUBSET GoodAddresses }

\* A deployment that starts on a database that already holds Account
\* records.
InitStored ==
    /\ rev \in Revs
    /\ now = 0
    /\ nonceCtr = 0
    /\ nonces = Empty
    /\ issued = Empty
    /\ accounts \in AccountStates
    /\ sessions = Empty
    /\ resp = NoResponse
    /\ gate = NoGate
    /\ inflight = NoRequests
    /\ db = NoDb
    /\ calls = NoCalls

SpecStored == InitStored /\ [][NextAuth]_vars

\* ------------------------------------------------------------ concurrent verifies
\* router.post("/verify") of routes/admin.ts and routes/authRoutes.ts up to
\* its first await: the parameters are present, the record is looked up.
\* The request carries the address's signature, in base64, over the text
\* the store holds.
verifyLookup(p) ==
    /\ rev \in {"admin", "authRoutes"}
    /\ inflight[p].pc = "idle"
    /\ \E a \in GoodAddresses :
         IF a \notin DOMAIN nonces
         THEN /\ inflight' = [inflight EXCEPT
                                ![p] = Request("failed", a, OtherText, 0, NoSig)]
              /\ resp' = Response("verify", a, 400,
                                  IF rev = "admin" THEN "nonce_missing"
                                  ELSE "No challenge found", NoToken, "")
         ELSE /\ inflight' = [inflight EXCEPT
                                ![p] = Request("found", a, StoredText(a),
                                               nonces[a].createdAt,
                                               WireSig("base64", a, StoredText(a),
                                                       Base64SigChars))]
              /\ UNCHANGED resp
    /\ UNCHANGED <<rev, now, nonceCtr, nonces, issued, accounts, sessions, gate, db, calls>>

\* The rest of the handler, after the lookup returned a record: TTL check
\* on the record read, signature check against the text read, Wallet
\* find/create (routes/admin.ts), delete of the address's record, response.
verifyFinish(p) ==
    /\ inflight[p].pc = "found"
    /\ LET r == inflight[p]
           a == r.addr
           valid == naclVerify(r.text, BufferFromBase64(r.sig),
                               bs58decodeLen(a), a)
           role == IF rev = "admin"
                   THEN (IF listIncludes(a) THEN "ADMIN" ELSE "USER")
                   ELSE (IF isAdminWallet(a) THEN "ADMIN" ELSE "USER")
       IN IF Expired(r.createdAt, now)
          THEN /\ nonces' = Remove(nonces, a)
               /\ resp' = Response("verify", a, 400,
                                   IF rev = "admin" THEN "nonce_expired"
                                   ELSE "Challenge expired", NoToken, "")
               /\ inflight' = [inflight EXCEPT ![p].pc = "failed"]
               /\ UNCHANGED accounts
          ELSE IF valid = "throw"
          THEN /\ resp' = Response("verify", a, 500,
                                   IF rev = "admin" THEN "server_error"
                                   ELSE "Verification failed", NoToken, "")
               /\ inflight' = [inflight EXCEPT ![p].pc = "failed"]
               /\ UNCHANGED <<nonces, accounts>>
          ELSE IF valid = "false"
          THEN /\ resp' = Response("verify", a, 401,
                                   IF rev = "admin" THEN "invalid_signature"
                                   ELSE "Invalid signature", NoToken, "")
               /\ inflight' = [inflight EXCEPT ![p].pc = "failed"]
               /\ UNCHANGED <<nonces, accounts>>
          ELSE /\ accounts' = IF rev = "admin" THEN findOrCreateWallet(a)
                              ELSE accounts
               /\ nonces' = consume(nonces, a)
               /\ resp' = Response("verify", a, 200, "",
                                   jwtSign(a, role, now), role)
               /\ inflight' = [inflight EXCEPT ![p].pc = "succeeded"]
    /\ UNCHANGED <<rev, now, nonceCtr, issued, sessions, gate, db, calls>>

VerifyConcurrently == \E p \in Procs : verifyLookup(p) \/ verifyFinish(p)

InitRace ==
    /\ rev \in {"admin", "authRoutes"}
    /\ now = 0
    /\ nonceCtr = 0
    /\ nonces = Empty
    /\ issued = Empty
    /\ accounts = Empty
    /\ sessions = Empty
    /\ resp = NoResponse
    /\ gate = NoGate
    /\ inflight = NoRequests
    /\ db = NoDb
    /\ calls = NoCalls

\* The challenge routes of the two revisions whose verify is raced.
RequestChallengeRace ==
    \E walletAddress \in Addresses \cup {NoParam} :
        \/ Nonce(walletAddress)
        \/ Challenge(walletAddress)

NextRace == Tick \/ RequestChallengeRace \/ VerifyConcurrently

SpecRace == InitRace /\ [][NextRace]_vars

\* ------------------------------------------------------------ clients that keep a signature
\* A client signs the challenge text it was last given for an address and
\* keeps the signature, in either encoding, until it submits it.
SignChallenge(p) ==
    /\ inflight[p].pc = "idle"
    /\ \E a \in DOMAIN issued :
         \E sig \in { WireSig("base64", a, issued[a], Base64SigChars) }
                      \cup { WireSig("base58", a, issued[a], c) :
                                c \in Base58SigChars } :
           inflight' = [inflight EXCEPT
                          ![p] = Request("signed", a, issued[a], 0, sig)]
    /\ UNCHANGED <<rev, now, nonceCtr, nonces, issued, accounts, sessions,
                   resp, gate, db, calls>>

\* POST /auth/verify with the signature the client kept; a client of the
\* server revision sends the text it signed as the message.
SubmitSigned(p) ==
    /\ inflight[p].pc = "signed"
    /\ LET out == verify(inflight[p].addr, inflight[p].sig)
       IN /\ resp' = out.resp
          /\ nonces' = out.nonces
          /\ accounts' = out.accounts
          /\ sessions' = IF rev = "server" THEN out.sessions ELSE sessions
          /\ inflight' = [inflight EXCEPT
                            ![p].pc = IF out.resp.status = 200
                                      THEN "succeeded" ELSE "failed"]
    /\ UNCHANGED <<rev, now, nonceCtr, issued, gate, db, calls>>

\* One client that keeps one signature.
Client == CHOOSE p \in Procs : \A q \in Procs : p <= q

Clients == SignChallenge(Client) \/ SubmitSigned(Client)

\* The challenge routes of the revisions that verify against the stored
\* text itself.
RequestChallengeClient ==
    \E walletAddress \in Addresses \cup {NoParam} :
        \/ Challenge(walletAddress)
        \/ ChallengeServer(walletAddress)

InitClient ==
    /\ rev \in {"authRoutes", "server"}
    /\ now = 0
    /\ nonceCtr = 0
    /\ nonces = Empty
    /\ issued = Empty
    /\ accounts = Empty
    /\ sessions = Empty
    /\ resp = NoResponse
    /\ gate = NoGate
    /\ inflight = NoRequests
    /\ db = NoDb
    /\ calls = NoCalls

NextClient == Tick \/ RequestChallengeClient \/ Clients

SpecClient == InitClient /\ [][NextClient]_vars

\* ------------------------------------------------------------ store failures
\* The awaited store operations of a verify handler that can reject: the
\* lookup of the record, the find/create or upsert of the Account, and the
\* delete of the record.  The server's Map of utils/solanaverify.ts cannot
\* fail; its only awaited operation is the User upsert.
FaultPoints ==
    CASE rev = "admin" -> {"lookup", "account", "delete"}
      [] rev = "authRoutes" -> {"lookup", "delete"}
      [] rev = "auth" -> {"lookup", "account", "delete"}
      [] rev = "server" -> {"account"}

\* The handler gets as far as the operation: the lookup follows the
\* parameter checks; the Account operation and the final delete follow a
\* signature that verified; the delete of the TTL branch follows an
\* expired record.
Reaches(a, sig, point) ==
    IF point = "lookup"
    THEN /\ a # NoParam
         /\ sig # NoSig
         /\ (rev = "authRoutes" => isSolanaAddress(a))
    ELSE \/ verify(a, sig).resp.status = 200
         \/ (point = "delete" /\ verify(a, sig).resp.error \in
                                   {"nonce_expired", "Challenge expired"})

\* The body of the catch block of the handler.
ServerError ==
    CASE rev = "admin" -> "server_error"
      [] rev = "authRoutes" -> "Verification failed"
      [] rev = "auth" -> "server_error"
      [] rev = "server" -> "Server error"

\* The verify handler when the operation at point rejects: the catch block
\* answers 500; what the handler wrote before stays written.  The server
\* has run walletNonces.delete(address) before its upsert; routes/admin.ts
\* and routes/auth.ts have found or created the Account before their
\* delete.
verifyFault(a, sig, point) ==
    LET out == verify(a, sig)
    IN OutcomeServer(Response("verify", a, 500, ServerError, NoToken, ""),
                     IF rev = "server" THEN out.nonces ELSE nonces,
                     IF point = "delete" /\ out.resp.status = 200
                     THEN out.accounts ELSE accounts,
                     sessions)

VerifyFaulted ==
    \E a \in Addresses : \E sig \in SigInputs(a) : \E point \in FaultPoints :
      /\ Reaches(a, sig, point)
      /\ LET out == verifyFault(a, sig, point)
         IN /\ resp' = out.resp
            /\ nonces' = out.nonces
            /\ accounts' = out.accounts
            /\ sessions' = out.sessions
      /\ UNCHANGED <<rev, now, nonceCtr, issued, gate, inflight,
                   db, calls>>

NextFault == Tick \/ RequestChallenge \/ VerifyAndIssue \/ VerifyFaulted

SpecFault == Init /\ [][NextFault]_vars

\* Clients that also send addresses that are not 32-byte keys.
NextInput ==
    \/ Tick
    \/ RequestChallengeFrom(AnyAddresses)
    \/ VerifyAndIssueFrom(AnyAddresses)

SpecInput == Init /\ [][NextInput]_vars

\* The result of one middleware: the status it answered with, req.auth
\* after it, and whether it called next().
Passed(auth) == [status |-> 0, auth |-> auth, next |-> TRUE]
Answered(status, auth) == [status |-> status, auth |-> auth, next |-> FALSE]

\* ------------------------------------------------------------ requireAuth
\* middleware/auth.ts:30-43: req.auth is the verified payload itself.
requireAuthJwt(bearer, auth) ==
    IF ~hasBearer(bearer) THEN Answered(401, auth)
    ELSE IF jwtVerify(bearer, now) = "throw" THEN Answered(401, auth)
    ELSE Passed(AuthContext(bearer.wallet, bearer.userId, bearer.role))

\* A resolution that trusts the token role alone.
resolveTokenOnly(tokenRole, address) ==
    IF tokenRole = "ADMIN" THEN "ADMIN" ELSE "USER"

\* middleware/auth.ts:111-116: token role, then the literal list.
resolvePrisma(tokenRole, address) ==
    IF tokenRole = "ADMIN" \/ listIncludes(address) THEN "ADMIN" ELSE "USER"

\* middleware/auth.ts:81-130
requireAuthPrisma(bearer, auth) ==
    IF ~hasBearer(bearer) THEN Answered(401, auth)
    ELSE IF jwtVerify(bearer, now) = "throw" THEN Answered(401, auth)
    ELSE IF bearer.wallet = NoParam THEN Answered(401, auth)
    ELSE IF bearer.wallet \notin DOMAIN accounts THEN Answered(401, auth)
    ELSE Passed(AuthContext(bearer.wallet, NoParam,
                            resolvePrisma(bearer.role, bearer.wallet)))

\* part_007:85-93: stored role, then token role, then the ADMIN_WALLETS
\* environment list, compared in lower case.
resolveMongoose(userRole, decodedRole, address) ==
    LET dbRole == IF userRole = "" THEN "USER" ELSE userRole
        tokenRole == IF decodedRole = "" THEN "USER" ELSE decodedRole
    IN IF dbRole = "ADMIN" \/ tokenRole = "ADMIN" \/ isAdminWallet(address)
       THEN "ADMIN" ELSE "USER"

\* part_007:51-106
requireAuthMongoose(bearer, auth) ==
    IF ~hasBearer(bearer) THEN Answered(401, auth)
    ELSE IF jwtVerify(bearer, now) = "throw" THEN Answered(401, auth)
    ELSE IF bearer.wallet = NoParam THEN Answered(401, auth)
    ELSE IF bearer.wallet \notin DOMAIN accounts THEN Answered(401, auth)
    ELSE Passed(AuthContext(bearer.wallet, NoParam,
                            resolveMongoose(accounts[bearer.wallet],
                                            bearer.role, bearer.wallet)))

\* part_009:44-46: the literal list alone.
resolveList(address) == IF listIncludes(address) THEN "ADMIN" ELSE "USER"

\* part_009:23-59
requireAuthList(bearer, auth) ==
    IF ~hasBearer(bearer) THEN Answered(401, auth)
    ELSE IF jwtVerify(bearer, now) = "throw" THEN Answered(401, auth)
    ELSE IF bearer.wallet \notin DOMAIN accounts THEN Answered(401, auth)
    ELSE Passed(AuthContext(bearer.wallet, NoParam, resolveList(bearer.wallet)))

Mws == {"jwt", "prisma", "mongoose", "list"}

requireAuth(mw, bearer, auth) ==
    CASE mw = "jwt" -> requireAuthJwt(bearer, auth)
      [] mw = "prisma" -> requireAuthPrisma(bearer, auth)
      [] mw = "mongoose" -> requireAuthMongoose(bearer, auth)
      [] mw = "list" -> requireAuthList(bearer, auth)

\* ------------------------------------------------------------ requireAdmin
\* middleware/auth.ts:48-55: calls requireAuth, then checks the role.
requireAdminJwt(bearer, auth) ==
    LET r == requireAuthJwt(bearer, auth)
    IN IF ~r.next THEN r
       ELSE IF r.auth.role # "ADMIN" THEN Answered(403, r.auth)
       ELSE Passed(r.auth)

\* middleware/auth.ts:135-145, part_007:111-121, part_009:64-74: looks at
\* req.auth as it finds it.
requireAdminPlain(bearer, auth) ==
    IF auth = NoAuth THEN Answered(401, auth)
    ELSE IF auth.role # "ADMIN" THEN Answered(403, auth)
    ELSE Passed(auth)

requireAdmin(mw, bearer, auth) ==
    IF mw = "jwt" THEN requireAdminJwt(bearer, auth)
    ELSE requireAdminPlain(bearer, auth)

\* ------------------------------------------------------------ guarded routes
\* Every guarded route of the repository names one guard, e.g.
\* router.post("/claim/:id", requireAuth, ...) and
\* router.post("/create", requireAdmin, ...) of routes/reward.ts.  Express
\* hands the guard a request whose req.auth is not set.
Guards == {"requireAuth", "requireAdmin"}

route(mw, guard, bearer) ==
    LET r == IF guard = "requireAuth"
             THEN requireAuth(mw, bearer, NoAuth)
             ELSE requireAdmin(mw, bearer, NoAuth)
    IN Gate(mw, guard, bearer, r.status, r.auth, r.next)

Protected ==
    \E mw \in Mws, guard \in Guards, bearer \in Bearers(now) :
        /\ gate' = route(mw, guard, bearer)
        /\ UNCHANGED <<rev, now, nonceCtr, nonces, issued, accounts, sessions, resp, inflight,
                   db, calls>>

InitGate ==
    /\ rev = "admin"
    /\ now = 0
    /\ nonceCtr = 0
    /\ nonces = Empty
    /\ issued = Empty
    /\ accounts \in AccountStates
    /\ sessions = Empty
    /\ resp = NoResponse
    /\ gate = NoGate
    /\ inflight = NoRequests
    /\ db = NoDb
    /\ calls = NoCalls

NextGate == Tick \/ Protected

SpecGate == InitGate /\ [][NextGate]_vars

\* ------------------------------------------------------------ reward claims and spends
authVars == <<rev, now, nonceCtr, nonces, issued, accounts, sessions, resp,
              gate, inflight>>

Answer(call, status, error) ==
    [call EXCEPT !.pc = IF status = 200 THEN "done" ELSE "rejected",
                 !.status = status, !.error = error]

\* Reward.findById(req.params.id) of router.post("/claim/:id"), after
\* requireAuth has set req.auth.wallet.
ClaimFindReward(p) ==
    /\ calls[p].pc = "idle"
    /\ \E wallet \in GoodAddresses : \E found \in BOOLEAN :
         LET call == Call("findUser", "claim", wallet, NoAmount, db.reward,
                          0, 0, "")
         IN calls' = [calls EXCEPT
                        ![p] = IF found THEN call
                               ELSE Answer(call, 404, "reward_not_found")]
    /\ UNCHANGED db
    /\ UNCHANGED authVars

\* User.findOne({ wallet }) and the checks on the two documents read; the
\* points are deducted on the document in memory.
ClaimFindUser(p) ==
    /\ calls[p].pc = "findUser"
    /\ calls[p].route = "claim"
    /\ LET call == calls[p]
           wallet == call.wallet
           reward == call.reward
           previousClaims == IF wallet \in DOMAIN reward.claimedBy
                             THEN reward.claimedBy[wallet] ELSE 0
       IN calls' = [calls EXCEPT ![p] =
            IF wallet \notin DOMAIN db.points
            THEN Answer(call, 400, "user_not_found")
            ELSE IF reward.inventory <= 0
            THEN Answer(call, 400, "reward_out_of_stock")
            ELSE IF db.points[wallet] < reward.pointsRequired
            THEN Answer(call, 400, "not_enough_points")
            ELSE IF previousClaims >= reward.claimLimit
            THEN Answer(call, 400, "claim_limit_reached")
            ELSE [call EXCEPT
                    !.pc = "saveUser",
                    !.points = db.points[wallet] - reward.pointsRequired]]
    /\ UNCHANGED db
    /\ UNCHANGED authVars

\* await user.save(): the modified path, points, is set to the value of the
\* document in memory.  Then inventory and claimedBy are changed in memory.
ClaimSaveUser(p) ==
    /\ calls[p].pc = "saveUser"
    /\ calls[p].route = "claim"
    /\ LET call == calls[p]
           wallet == call.wallet
           reward == call.reward
           previousClaims == IF wallet \in DOMAIN reward.claimedBy
                             THEN reward.claimedBy[wallet] ELSE 0
       IN /\ db' = [db EXCEPT !.points = Put(db.points, wallet, call.points)]
          /\ calls' = [calls EXCEPT ![p] =
               [call EXCEPT
                  !.pc = "saveReward",
                  !.reward = [reward EXCEPT
                     !.inventory = reward.inventory - 1,
                     !.claimedBy = Put(reward.claimedBy, wallet,
                                       previousClaims + 1)]]]
    /\ UNCHANGED authVars

\* await reward.save(): the modified paths, inventory and the wallet's
\* entry of claimedBy, are set to the values of the document in memory.
ClaimSaveReward(p) ==
    /\ calls[p].pc = "saveReward"
    /\ LET call == calls[p]
           wallet == call.wallet
       IN /\ db' = [db EXCEPT
                      !.reward.inventory = call.reward.inventory,
                      !.reward.claimedBy = Put(db.reward.claimedBy, wallet,
                                               call.reward.claimedBy[wallet])]
          /\ calls' = [calls EXCEPT ![p].pc = "log"]
    /\ UNCHANGED authVars

\* await Transaction.create({ type: "REWARD_CLAIM", ... }) and the answer.
ClaimLog(p) ==
    /\ calls[p].pc = "log"
    /\ calls[p].route = "claim"
    /\ db' = [db EXCEPT !.txs =
                Append(db.txs, Transaction(calls[p].wallet, "REWARD_CLAIM",
                                           - calls[p].reward.pointsRequired))]
    /\ calls' = [calls EXCEPT ![p] = Answer(calls[p], 200, "")]
    /\ UNCHANGED authVars

ClaimReward ==
    \E p \in Procs :
        \/ ClaimFindReward(p)
        \/ ClaimFindUser(p)
        \/ ClaimSaveUser(p)
        \/ ClaimSaveReward(p)
        \/ ClaimLog(p)

\* What a client can send as the amount of a /spend: nothing, or a number.
Amounts == {NoAmount} \cup { Amount(TRUE, v) : v \in -1 .. MaxPoints }

\* Math.abs
Abs(n) == IF n < 0 THEN - n ELSE n

\* User.findOne({ wallet }) of router.post("/spend") and the check
\* user.points < amount; the amount is deducted on the document in memory.
\* With no amount the comparison with undefined is false and the deduction
\* gives NaN, which the Number path rejects when the document is saved.
SpendFindUser(p) ==
    /\ calls[p].pc = "idle"
    /\ \E wallet \in GoodAddresses : \E amount \in Amounts :
         LET call == Call("findUser", "spend", wallet, amount, NoDb.reward,
                          0, 0, "")
         IN calls' = [calls EXCEPT ![p] =
              IF wallet \notin DOMAIN db.points
              THEN Answer(call, 404, "user_not_found")
              ELSE IF ~amount.given
              THEN Answer(call, 500, "server_error")
              ELSE IF db.points[wallet] < amount.value
              THEN Answer(call, 400, "insufficient_points")
              ELSE [call EXCEPT !.pc = "saveUser",
                                !.points = db.points[wallet] - amount.value]]
    /\ UNCHANGED db
    /\ UNCHANGED authVars

\* await user.save() of /spend
SpendSaveUser(p) ==
    /\ calls[p].pc = "saveUser"
    /\ calls[p].route = "spend"
    /\ db' = [db EXCEPT !.points = Put(db.points, calls[p].wallet,
                                       calls[p].points)]
    /\ calls' = [calls EXCEPT ![p].pc = "log"]
    /\ UNCHANGED authVars

\* await Transaction.create({ type: "SPEND", amount: -Math.abs(amount) })
SpendLog(p) ==
    /\ calls[p].pc = "log"
    /\ calls[p].route = "spend"
    /\ db' = [db EXCEPT !.txs =
                Append(db.txs, Transaction(calls[p].wallet, "SPEND",
                                           - Abs(calls[p].amount.value)))]
    /\ calls' = [calls EXCEPT ![p] = Answer(calls[p], 200, "")]
    /\ UNCHANGED authVars

SpendPoints ==
    \E p \in Procs : SpendFindUser(p) \/ SpendSaveUser(p) \/ SpendLog(p)

\* A Mongoose deployment with one reward on offer and one User document.
InitShop ==
    /\ rev = "auth"
    /\ now = 0
    /\ nonceCtr = 0
    /\ nonces = Empty
    /\ issued = Empty
    /\ accounts = Empty
    /\ sessions = Empty
    /\ resp = NoResponse
    /\ gate = NoGate
    /\ inflight = NoRequests
    /\ \E pointsRequired \in 1 .. MaxPoints :
         \E inventory \in 0 .. MaxStock :
           \E claimLimit \in 1 .. MaxStock :
             \E points \in 0 .. MaxPoints :
               db = Db(Reward(pointsRequired, inventory, claimLimit, Empty),
                       [w \in {"Addr1"} |-> points], <<>>)
    /\ calls = NoCalls

SpecClaims == InitShop /\ [][ClaimReward]_vars

SpecSpends == InitShop /\ [][SpendPoints]_vars

\* ============================================================ claims
MissingErrors == {"nonce_missing", "No challenge found"}
ExpiredErrors == {"nonce_expired", "Challenge expired"}
InvalidSignatureErrors == {"invalid_signature", "Invalid signature"}

\* A challenge is stored for a and is not older than the TTL.
Live(a) == a \in DOMAIN nonces /\ ~Expired(nonces[a].createdAt, now)

\* The signatures a request can carry (the parameter is present).
Signatures(a) == SigInputs(a) \ {NoSig}

\* sig is an Ed25519 signature made with the key of address a over the
\* text the server holds for a, whatever its wire encoding.
Genuine(sig, a) ==
    a \in DOMAIN nonces /\ sig.signer = a /\ sig.text = StoredText(a)

Success(out) == out.resp.status = 200 /\ out.resp.token # NoToken

\* C1: in routes/admin.ts and routes/authRoutes.ts, for every address and
\* every submitted signature, verify answers success with a token iff a
\* challenge is stored for the address (and not older than the TTL) and the
\* signature was made with the address's key over exactly the stored text;
\* with a challenge stored, a signature over another text or by another key
\* is answered 401 invalid_signature without a token.
C1_Soundness ==
    rev \in {"admin", "authRoutes"} =>
      \A a \in GoodAddresses : \A sig \in Signatures(a) :
        LET out == verify(a, sig)
        IN /\ Success(out) <=> (Live(a) /\ Genuine(sig, a))
           /\ (Live(a) /\ ~Genuine(sig, a)) =>
                 /\ out.resp.status = 401
                 /\ out.resp.error \in InvalidSignatureErrors
                 /\ out.resp.token = NoToken

\* C2: single use.  A successful verify leaves no challenge for the address;
\* while none is stored every verify for the address, whatever signature it
\* carries, is answered with the missing-challenge error, issues no token
\* and changes nothing; and only a successful challenge request for that
\* address stores one again.
C2_Consumed ==
    /\ (resp.op = "verify" /\ resp.status = 200) => resp.addr \notin DOMAIN nonces
    /\ \A a \in GoodAddresses : \A sig \in Signatures(a) :
         LET out == verify(a, sig)
         IN /\ Success(out) => a \notin DOMAIN out.nonces
            /\ a \notin DOMAIN nonces =>
                  /\ out.resp.status = 400
                  /\ out.resp.error \in MissingErrors
                  /\ out.resp.token = NoToken
                  /\ out.nonces = nonces

C2_OnlyChallengeStores ==
    \A a \in Addresses :
      (a \notin DOMAIN nonces /\ a \in DOMAIN nonces') =>
        (resp'.op = "nonce" /\ resp'.addr = a /\ resp'.status = 200)

C2_SingleUse == []C2_Consumed /\ [][C2_OnlyChallengeStores]_vars

\* A verify for an address that logged in before (its Account exists) was
\* answered with the missing-challenge error.
C2_Witness ==
    /\ resp.op = "verify"
    /\ resp.error \in MissingErrors
    /\ resp.addr \in DOMAIN accounts
    /\ resp.addr \in DOMAIN issued
    /\ resp.addr \notin DOMAIN nonces

\* C3: expiry.  In routes/admin.ts and routes/auth.ts a verify for an
\* address whose stored challenge is older than the TTL is answered
\* nonce_expired whatever the signature, issues no token and deletes the
\* stored challenge.
C3_Expiry ==
    rev \in {"admin", "auth"} =>
      \A a \in GoodAddresses : \A sig \in Signatures(a) :
        LET out == verify(a, sig)
        IN (a \in DOMAIN nonces /\ Expired(nonces[a].createdAt, now)) =>
             /\ out.resp.status = 400
             /\ out.resp.error \in ExpiredErrors
             /\ out.resp.token = NoToken
             /\ a \notin DOMAIN out.nonces

\* C4: in routes/admin.ts and routes/authRoutes.ts a verify answered
\* invalid_signature leaves the challenge store as it was, and while the
\* challenge is stored and not older than the TTL a verify with a valid
\* signature over it succeeds.
C4_RetryAfterFailure ==
    rev \in {"admin", "authRoutes"} =>
      \A a \in GoodAddresses : \A sig \in Signatures(a) :
        LET out == verify(a, sig)
        IN /\ out.resp.error \in InvalidSignatureErrors =>
                 (out.nonces = nonces /\ Live(a))
           /\ (Live(a) /\ Genuine(sig, a)) => Success(out)

\* ------------------------------------------------------------ middleware claims
\* The header carries a JWT signed with the server secret and not expired.
ValidToken(bearer) ==
    /\ bearer.kind = "jwt"
    /\ bearer.secret = JWT_SECRET
    /\ now \div MsPerSec < bearer.exp

\* The address is on the operator's allow-list.
AllowListed(address) == address \in ADMIN_WALLETS

\* C5: admin precedence.  In the requireAuth of part_007, of
\* middleware/auth.ts:81-130 and of part_009:23-59, a valid token of an
\* allow-listed address that has an Account record passes with role ADMIN,
\* whatever role the record stores and whatever role the token embeds.
C5_AdminPrecedence ==
    /\ \A mw \in {"mongoose", "prisma", "list"} : \A bearer \in Bearers(now) :
         LET g == route(mw, "requireAuth", bearer)
         IN (/\ ValidToken(bearer)
             /\ AllowListed(bearer.wallet)
             /\ bearer.wallet \in DOMAIN accounts) =>
               (g.ran /\ g.auth.wallet = bearer.wallet /\ g.auth.role = "ADMIN")
    /\ (/\ gate.mw \in {"mongoose", "prisma", "list"}
        /\ gate.ran
        /\ AllowListed(gate.auth.wallet)) => gate.auth.role = "ADMIN"

\* An allow-listed address whose record stores USER presented a token that
\* embeds USER and was given ADMIN.
C5_Witness ==
    /\ gate.mw = "prisma"
    /\ gate.guard = "requireAuth"
    /\ gate.ran
    /\ gate.bearer.role = "USER"
    /\ AllowListed(gate.bearer.wallet)
    /\ gate.bearer.wallet \in DOMAIN accounts
    /\ accounts[gate.bearer.wallet] = "USER"
    /\ gate.auth.role = "ADMIN"

\* C6: in the same three revisions the role given to a valid token of an
\* address with an Account record is ADMIN iff the address is allow-listed,
\* or the record stores ADMIN, or the token embeds ADMIN, and USER otherwise.
C6_ExactDisjunction ==
    \A mw \in {"mongoose", "prisma", "list"} : \A bearer \in Bearers(now) :
      LET g == route(mw, "requireAuth", bearer)
      IN (ValidToken(bearer) /\ bearer.wallet \in DOMAIN accounts) =>
           /\ g.ran
           /\ g.auth.role \in Roles
           /\ g.auth.role = "ADMIN" <=>
                 \/ AllowListed(bearer.wallet)
                 \/ accounts[bearer.wallet] = "ADMIN"
                 \/ bearer.role = "ADMIN"

\* C7: in the requireAuth of part_007 and of middleware/auth.ts:81-130 a
\* valid token of an address without an Account record passes, with role
\* ADMIN if the address is allow-listed and USER otherwise.
C7_MissingAccountTolerated ==
    \A mw \in {"mongoose", "prisma"} : \A bearer \in Bearers(now) :
      LET g == route(mw, "requireAuth", bearer)
      IN (/\ ValidToken(bearer)
          /\ bearer.wallet \in GoodAddresses
          /\ bearer.wallet \notin DOMAIN accounts) =>
            /\ g.ran
            /\ g.auth.role = IF AllowListed(bearer.wallet) THEN "ADMIN" ELSE "USER"

\* The address a token is about and the address of an AuthContext.
Subject(x) == IF x.wallet # NoParam THEN x.wallet ELSE x.userId

\* C8: on a route guarded by requireAuth, in every revision, the handler
\* runs only for a header that carries a server-signed, unexpired token;
\* without a header, with a string that is no token, with a forged or an
\* expired token the answer is 401 and the handler does not run; when the
\* handler runs, the AuthContext names the token's subject address.
C8_RequireAuth ==
    /\ \A mw \in Mws : \A bearer \in Bearers(now) :
         LET g == route(mw, "requireAuth", bearer)
         IN /\ g.ran => ValidToken(bearer)
            /\ ~ValidToken(bearer) => (g.status = 401 /\ ~g.ran)
            /\ g.ran => (g.status = 0 /\ Subject(g.auth) = Subject(bearer))
            /\ ~g.ran => g.status = 401
    /\ (gate.guard = "requireAuth" /\ gate.ran) =>
         (/\ gate.bearer.kind = "jwt"
          /\ gate.bearer.secret = JWT_SECRET
          /\ Subject(gate.auth) = Subject(gate.bearer))

\* A request with a server-signed token in its last valid second reached
\* the handler, its AuthContext naming the token's address.
C8_Witness ==
    /\ gate.guard = "requireAuth"
    /\ gate.ran
    /\ gate.mw = "mongoose"
    /\ gate.bearer.exp = (now \div MsPerSec) + 1
    /\ gate.auth.wallet = gate.bearer.wallet

\* The role requireAuth of revision mw gives to the header, "" if it
\* gives none.
ResolvedRole(mw, bearer) ==
    LET r == requireAuth(mw, bearer, NoAuth)
    IN IF r.next THEN r.auth.role ELSE ""

\* C9: on a route guarded by requireAdmin (middleware/auth.ts:48-55 and
\* 135-145, part_007:111-121) a valid token whose resolved role is USER is
\* answered 403, a request without a token 401, and neither reaches the
\* handler.
C9_RequireAdminStatus ==
    \A mw \in {"jwt", "prisma", "mongoose"} : \A bearer \in Bearers(now) :
      LET g == route(mw, "requireAdmin", bearer)
      IN /\ (ValidToken(bearer) /\ ResolvedRole(mw, bearer) = "USER") =>
              (g.status = 403 /\ ~g.ran)
         /\ ~hasBearer(bearer) => (g.status = 401 /\ ~g.ran)

\* C10: on a route guarded by requireAdmin alone, a valid token whose
\* resolved role is ADMIN reaches the handler with its AuthContext.
C10_RequireAdminComposes ==
    \A mw \in {"jwt", "prisma", "mongoose"} : \A bearer \in Bearers(now) :
      LET g == route(mw, "requireAdmin", bearer)
      IN (ValidToken(bearer) /\ ResolvedRole(mw, bearer) = "ADMIN") =>
           (g.ran /\ g.auth.role = "ADMIN" /\ Subject(g.auth) = Subject(bearer))

\* ------------------------------------------------------------ verify roles
\* The last request was a verify that succeeded.
Verified == resp.op = "verify" /\ resp.status = 200

\* C11: in routes/auth.ts and routes/admin.ts, after every successful
\* verify of an allow-listed address the response carries role ADMIN, the
\* token embeds ADMIN, the Account record stores ADMIN (whether this call
\* created it or a USER record existed before), and an introspect of the
\* token answers ADMIN.
C11_AdminPromotion ==
    (/\ rev \in {"auth", "admin"}
     /\ Verified
     /\ AllowListed(resp.addr)) =>
       /\ resp.role = "ADMIN"
       /\ resp.token.role = "ADMIN"
       /\ resp.addr \in DOMAIN accounts
       /\ accounts[resp.addr] = "ADMIN"
       /\ introspect(BearerOf(resp.token)).active
       /\ introspect(BearerOf(resp.token)).role = "ADMIN"

\* ------------------------------------------------------------ message round trip
\* The signature a client makes with the key of address a over the text
\* the challenge route returned to it, sent in base64.
SignReturned(a) == WireSig("base64", a, issued[a], Base64SigChars)

\* C12: in routes/admin.ts the message verify rebuilds from the stored
\* record equals the message the nonce route returned, so a signature by
\* the address's key over the returned message, within the TTL, succeeds,
\* with role USER for an address that is not allow-listed.
C12_RoundTrip ==
    rev = "admin" =>
      \A a \in DOMAIN nonces :
        /\ StoredText(a) = issued[a]
        /\ (Live(a) /\ ~AllowListed(a)) =>
             LET out == verify(a, SignReturned(a))
             IN Success(out) /\ out.resp.role = "USER"

\* ------------------------------------------------------------ introspect claims
\* C13: in routes/authRoutes.ts, routes/auth.ts and the server of
\* utils/solanaverify.ts, introspect answers a missing, malformed, forged or
\* expired token with the plain result active = false: status 200, no
\* error text.
C13_InactiveNotError ==
    rev \in {"authRoutes", "auth", "server"} =>
      \A bearer \in Bearers(now) :
        ~ValidToken(bearer) =>
          LET r == introspect(bearer)
          IN r.status = 200 /\ r.error = "" /\ ~r.active

\* The role the Authorization Resolver gives: allow-list, then the Account
\* record, then the token claim.
Resolved(address, accountRole, tokenRole) ==
    IF AllowListed(address) \/ accountRole = "ADMIN" \/ tokenRole = "ADMIN"
    THEN "ADMIN" ELSE "USER"

\* C14: in routes/authRoutes.ts, routes/auth.ts and routes/admin.ts, the
\* role introspect returns for a valid token of an address with an Account
\* record is the role resolved now from the allow-list, the record and the
\* token: a token that embeds USER whose record stores ADMIN gets ADMIN.
C14_IntrospectResolves ==
    rev \in {"authRoutes", "auth", "admin"} =>
      \A bearer \in Presentable :
        (ValidToken(bearer) /\ bearer.wallet \in DOMAIN accounts) =>
          LET r == introspect(bearer)
          IN /\ r.active
             /\ r.role = Resolved(bearer.wallet, accounts[bearer.wallet],
                                  bearer.role)

\* In routes/authRoutes.ts and routes/admin.ts the token a verify has just
\* handed out introspects as active, with the address and the role the
\* verify returned.
C15_SameAsIssued ==
    (rev \in {"authRoutes", "admin"} /\ Verified) =>
      LET r == introspect(BearerOf(resp.token))
      IN r.active /\ r.addr = resp.addr /\ r.role = resp.role

\* An introspect call changes no store and no answer: every presentable
\* token introspects after the call as it did before it.
C15_ReadOnly ==
    (/\ rev \in {"authRoutes", "admin"}
     /\ resp' # resp
     /\ resp'.op = "introspect") =>
      /\ UNCHANGED <<nonces, accounts, sessions, now>>
      /\ \A bearer \in Presentable : introspect(bearer)' = introspect(bearer)

\* C15: introspect is idempotent and read-only: a freshly issued token
\* introspects as active with the address and role of its verify, and any
\* number of introspect calls leave the stores and the answers unchanged.
C15_Idempotent == []C15_SameAsIssued /\ [][C15_ReadOnly]_vars

\* An introspect of routes/admin.ts answered active and ADMIN for an
\* address whose Account record a verify created and whose challenge that
\* verify consumed.
C15_Witness ==
    /\ rev = "admin"
    /\ resp.op = "introspect"
    /\ resp.active
    /\ resp.role = "ADMIN"
    /\ resp.addr \in DOMAIN accounts
    /\ resp.addr \in DOMAIN issued
    /\ resp.addr \notin DOMAIN nonces

\* ------------------------------------------------------------ one challenge
\* The store holds, for each address, the challenge issued last to it.
C16_HoldsLatest ==
    \A a \in DOMAIN nonces :
      a \in DOMAIN issued /\ StoredText(a).nonce = issued[a].nonce

\* A challenge request for address a has just been accepted.
Accepted(a) ==
    /\ resp'.op = "nonce"
    /\ resp'.status = 200
    /\ resp'.addr = a
    /\ nonceCtr' # nonceCtr

\* When a challenge is requested for an address that holds an unconsumed
\* one, no signature over the replaced text succeeds any more, and the
\* address's signature over the new text does.
C16_Overwrites ==
    \A a \in DOMAIN nonces :
      Accepted(a) =>
        /\ a \in DOMAIN nonces'
        /\ \A old \in {StoredText(a)} :
             /\ StoredText(a)' # old
             /\ \A k \in GoodAddresses, enc \in Encodings :
                  ~Success(verify(a, WireSig(enc, k, old, Base64SigChars))')
        /\ a \in GoodAddresses =>
             \A new \in {StoredText(a)'} :
               Success(verify(a, WireSig("base64", a, new, Base64SigChars))')

\* C16: the challenge store holds at most one challenge per address, the
\* one issued last; a challenge request for an address with an unconsumed
\* challenge overwrites it, a valid signature over the overwritten message
\* no longer verifies, and the signature of a well-formed address over the
\* new message does.
C16_OnePerAddress == []C16_HoldsLatest /\ [][C16_Overwrites]_vars

\* Addr1 asked for two challenges in a row, within the TTL and without a
\* successful verify, and a verify was then answered 401.
C16_Witness ==
    /\ rev = "admin"
    /\ nonceCtr = 2
    /\ DOMAIN issued = {"Addr1"}
    /\ "Addr1" \in DOMAIN nonces
    /\ nonces["Addr1"].nonce = 2
    /\ accounts = Empty
    /\ now <= MaxDrift
    /\ resp.op = "verify"
    /\ resp.status = 401

\* ------------------------------------------------------------ token lifetime
MinTokenDays == 7
MaxTokenDays == 30
DaySec == 24 * 60 * 60

\* The token carries an expiry 7 to 30 days after its issuance, both counted
\* in the whole seconds of the JWT clock.
LifetimeInPolicy(token) ==
    /\ token.iat = now \div MsPerSec
    /\ token.exp - token.iat >= MinTokenDays * DaySec
    /\ token.exp - token.iat <= MaxTokenDays * DaySec

\* C17: a token issued now by issueJwt of middleware/auth.ts (either
\* revision) expires 7 to 30 days later and is accepted now; jwt.verify
\* accepts a token exactly when it is signed with the server secret and
\* now < expiresAt; and no guard of these revisions lets a request through
\* with a token at or after its expiry or with another signature.
C17_BoundedLifetime ==
    /\ \A a \in GoodAddresses, r \in Roles :
         \A token \in {issueJwt(a, r, now), issueJwt30d(a, r, now)} :
           /\ LifetimeInPolicy(token)
           /\ jwtVerify(BearerOf(token), now) = "ok"
    /\ \A bearer \in Bearers(now) :
         jwtVerify(bearer, now) = "ok" <=>
           (/\ bearer.kind = "jwt"
            /\ bearer.secret = JWT_SECRET
            /\ now < bearer.exp * MsPerSec)
    /\ \A mw \in {"jwt", "prisma"}, guard \in Guards :
         \A bearer \in Bearers(now) :
           route(mw, guard, bearer).ran =>
             (bearer.secret = JWT_SECRET /\ now < bearer.exp * MsPerSec)

\* After time has passed, a server-signed token that expires at this very
\* second was refused with 401.
C17_Witness ==
    /\ now > 0
    /\ gate.mw = "jwt"
    /\ gate.guard = "requireAuth"
    /\ ~gate.ran
    /\ gate.status = 401
    /\ gate.bearer.kind = "jwt"
    /\ gate.bearer.secret = JWT_SECRET
    /\ gate.bearer.exp > 0
    /\ gate.bearer.exp * MsPerSec = now

\* ------------------------------------------------------------ stateless tokens
\* C18: in routes/authRoutes.ts, the server of utils/solanaverify.ts and
\* requireAuth of middleware/auth.ts:30-43, a token that is accepted keeps
\* being accepted by introspect and by requireAuth for as long as it is
\* unexpired, whatever challenge requests and verifies (also of the same
\* address, handing out newer tokens) happen in between.
C18_StaysValid ==
    rev \in {"authRoutes", "server"} =>
      \A bearer \in Presentable :
        /\ (introspect(bearer).active /\ now' \div MsPerSec < bearer.exp) =>
              (introspect(bearer).active)'
        /\ (/\ route("jwt", "requireAuth", bearer).ran
            /\ now' \div MsPerSec < bearer.exp) =>
              (route("jwt", "requireAuth", bearer).ran)'

C18_Stateless == [][C18_StaysValid]_vars

\* ------------------------------------------------------------ input validation
\* The step is a challenge request for address w.
ChallengeStep(w) ==
    /\ resp'.op = "nonce"
    /\ resp'.addr = w
    /\ (resp' # resp \/ nonceCtr' # nonceCtr)

\* A challenge request without an address, or with an address that does
\* not decode to 32 bytes, is answered 400 and writes nothing; an accepted
\* request writes the record of its address and no other.
C19_Validated ==
    rev \in {"authRoutes", "admin"} =>
      \A w \in AnyAddresses \cup {NoParam} :
        ChallengeStep(w) =>
          /\ (w = NoParam \/ bs58decodeLen(w) # KeyBytes) =>
                (resp'.status = 400 /\ nonces' = nonces)
          /\ resp'.status = 200 =>
                /\ w \in DOMAIN nonces'
                /\ bs58decodeLen(w) = KeyBytes
                /\ \A a \in DOMAIN nonces' \ {w} :
                     a \in DOMAIN nonces /\ nonces'[a] = nonces[a]
          /\ resp'.status \in {200, 400}

\* C19: in routes/authRoutes.ts and routes/admin.ts the challenge route
\* validates its input before writing: a missing or malformed address gets
\* 400 and no record, an accepted request writes exactly one record, keyed
\* by its address.
C19_ValidatesInput == [][C19_Validated]_vars

\* ------------------------------------------------------------ interleaved verifies
\* C20: when several verify requests for one address, all carrying a valid
\* signature over the same stored challenge, are interleaved at their store
\* accesses in routes/admin.ts and routes/authRoutes.ts, at most one of
\* them is answered with success; a request that looks the challenge up
\* after it was consumed is not.
C20_AtMostOneSuccess ==
    \A p, q \in Procs :
      (/\ p # q
       /\ inflight[p].pc = "succeeded"
       /\ inflight[q].pc = "succeeded"
       /\ inflight[p].addr = inflight[q].addr) =>
         inflight[p].text # inflight[q].text

\* A step removes the record of address a.
Deletes(a) == a \in DOMAIN nonces /\ a \notin DOMAIN nonces'

\* Request p completes with success in this step, having validated a
\* signature over the text that the store holds for a.
ConsumedBy(p, a) ==
    /\ inflight[p].pc = "found"
    /\ inflight'[p].pc = "succeeded"
    /\ inflight[p].addr = a
    /\ inflight[p].text = StoredText(a)

C21_OnlyOwnChallenge ==
    \A a \in GoodAddresses :
      Deletes(a) =>
        \/ Expired(nonces[a].createdAt, now)
        \/ \E p \in Procs : ConsumedBy(p, a)

\* C21: a challenge record is deleted only by a verify that validated a
\* signature over that same challenge, or because that record has expired;
\* a verify that read challenge C1 does not delete the challenge C2 that a
\* later challenge request stored for the same address.
C21_NoLostUpdate == [][C21_OnlyOwnChallenge]_vars

\* ------------------------------------------------------------ stale signatures
\* Request p holds a signature over a text that is no longer the one the
\* store holds for its address: a newer challenge has replaced it.
Stale(p) ==
    /\ inflight[p].addr \in DOMAIN nonces
    /\ inflight[p].text # StoredText(inflight[p].addr)

\* The record of address a is within its TTL; the server's Map entries have
\* no age.
WithinTtl(a) ==
    /\ a \in DOMAIN nonces
    /\ (rev # "server" => ~Expired(nonces[a].createdAt, now))

\* Request p is submitted in this step.
Submits(p) == inflight[p].pc = "signed" /\ inflight'[p].pc # "signed"

C22_Rejected ==
    rev \in {"authRoutes", "server"} =>
      \A p \in Procs :
        (Stale(p) /\ WithinTtl(inflight[p].addr) /\ Submits(p)) =>
          /\ resp'.status # 200
          /\ resp'.token = NoToken
          /\ inflight'[p].pc = "failed"
          /\ nonces' = nonces
          /\ inflight[p].sig.enc = "base64" =>
               /\ resp'.status \in {400, 401}
               /\ resp'.error \in MissingErrors \cup InvalidSignatureErrors
          /\ LET a == inflight[p].addr
             IN Success(verify(a, WireSig("base64", a, StoredText(a),
                                          Base64SigChars))')

DemotedAdmin(bearer) ==
    /\ ValidToken(bearer)
    /\ bearer.role = "ADMIN"
    /\ bearer.wallet \in DOMAIN accounts
    /\ accounts[bearer.wallet] = "USER"
    /\ ~AllowListed(bearer.wallet)

\* C23: for a token that embeds ADMIN, after the Account record is demoted
\* to USER and with the address not allow-listed, the requireAuth of
\* part_007 and of part_009 and the introspect of routes/auth.ts keep
\* resolving ADMIN for as long as the token is valid.
C23_StaleRole ==
    \A bearer \in Bearers(now) :
      DemotedAdmin(bearer) =>
        /\ \A mw \in {"mongoose", "list"} :
             LET g == route(mw, "requireAuth", bearer)
             IN g.ran /\ g.auth.role = "ADMIN"
        /\ LET r == introspectAuth(bearer)
           IN r.active /\ r.role = "ADMIN"

\* ------------------------------------------------------------ signature encodings
\* The valid signatures over the stored challenge of a, as a client can
\* submit them: in base64, or in base58.
ValidSubmissions(a) ==
    { sig \in Signatures(a) : Genuine(sig, a) }

\* C24: a valid signature over the stored challenge is accepted by the
\* verify of routes/admin.ts and routes/authRoutes.ts, and by
\* verifySolanaSignature, whether it is submitted in base64 or in base58.
C24_BothEncodings ==
    \A a \in GoodAddresses :
      WithinTtl(a) =>
        /\ {sig.enc : sig \in ValidSubmissions(a)} = Encodings
        /\ \A sig \in ValidSubmissions(a) :
             /\ rev \in {"admin", "authRoutes"} => Success(verify(a, sig))
             /\ verifySolanaSignature(a, StoredText(a), sig)

\* ------------------------------------------------------------ malformed input
\* A base64 string that is two characters short of a signature.
TruncatedSig(a) == WireSig("base64", a, OtherText, Base64SigChars - 2)

\* The address or the signature does not decode to the size that
\* nacl.sign.detached.verify takes.
Undecodable(a, sig) ==
    \/ bs58decodeLen(a) # KeyBytes
    \/ BufferFromBase64(sig).len # SigBytes

\* C25: in routes/admin.ts and routes/authRoutes.ts a verify whose address
\* or signature does not decode, or decodes to the wrong length, is treated
\* as a failed signature check: it is answered 400 or 401 without a token,
\* never 500.
C25_NoServerFault ==
    rev \in {"admin", "authRoutes"} =>
      \A a \in AnyAddresses :
        \A sig \in (SigInputs(a) \ {NoSig}) \cup {TruncatedSig(a)} :
          Undecodable(a, sig) =>
            LET out == verify(a, sig)
            IN /\ out.resp.status \in {400, 401}
               /\ out.resp.token = NoToken

\* ------------------------------------------------------------ failure atomicity
\* C26: when a store operation of a verify fails, the response is 500
\* without a token and the challenge of the address is still stored as it
\* was, so that the same signature can be retried.
C26_FailureAtomic ==
    \A a \in GoodAddresses : \A sig \in Signatures(a) :
      \A point \in FaultPoints :
        (a \in DOMAIN nonces /\ Reaches(a, sig, point)) =>
          LET out == verifyFault(a, sig, point)
          IN /\ out.resp.status = 500
             /\ out.resp.token = NoToken
             /\ a \in DOMAIN out.nonces
             /\ out.nonces[a] = nonces[a]

\* ------------------------------------------------------------ role at issuance and at use
\* C27: the role a successful verify of routes/admin.ts or routes/auth.ts
\* returns is the role embedded in the token it issues, and the role that
\* the requireAuth of middleware/auth.ts:81-130 attaches when that token is
\* presented while the Account records are as the verify left them.
C27_RoleConsistent ==
    (rev \in {"admin", "auth"} /\ Verified) =>
      /\ resp.role = resp.token.role
      /\ LET g == route("prisma", "requireAuth", BearerOf(resp.token))
         IN g.ran /\ g.auth.role = resp.role

\* ------------------------------------------------------------ accounts are kept
C28_Kept ==
    \A a \in DOMAIN accounts :
      /\ a \in DOMAIN accounts'
      /\ accounts[a] = "ADMIN" => accounts'[a] = "ADMIN"

\* C28: no challenge request, verify or introspect removes an Account
\* record or lowers its stored role: a record that exists still exists
\* after the call, and one that said ADMIN still says ADMIN.
C28_NeverLowered == [][C28_Kept]_vars

\* ------------------------------------------------------------ reward claims
C29_Bounds ==
    /\ db.reward.inventory >= 0
    /\ \A w \in DOMAIN db.reward.claimedBy :
         db.reward.claimedBy[w] <= db.reward.claimLimit
    /\ \A w \in DOMAIN db.points : db.points[w] >= 0

\* The save of the user takes pointsRequired off the stored points, and the
\* save of the reward takes one off the stored inventory and adds one to
\* the stored count of the wallet.
C29_Deducts ==
    \A p \in Procs :
      LET w == calls[p].wallet
      IN /\ (calls[p].pc = "saveUser" /\ calls'[p].pc = "saveReward") =>
              db'.points[w] = db.points[w] - db.reward.pointsRequired
         /\ (calls[p].pc = "saveReward" /\ calls'[p].pc = "log") =>
              /\ db'.reward.inventory = db.reward.inventory - 1
              /\ db'.reward.claimedBy[w] =
                   (IF w \in DOMAIN db.reward.claimedBy
                    THEN db.reward.claimedBy[w] ELSE 0) + 1

\* C29: under any interleaving of claim requests the inventory of a reward
\* never goes below 0, the claims recorded for a wallet never exceed
\* claimLimit, the points of a user never go below 0, and every successful
\* claim decreases the inventory by exactly 1 and the points by exactly
\* pointsRequired.
C29_ClaimBounds == []C29_Bounds /\ [][C29_Deducts]_vars

\* ------------------------------------------------------------ spends
C30_NonNegative == \A w \in DOMAIN db.points : db.points[w] >= 0

C30_Lowers ==
    \A p \in Procs :
      LET w == calls[p].wallet
      IN /\ (calls[p].pc = "saveUser" /\ calls'[p].pc = "log") =>
              /\ calls[p].amount.given
              /\ calls[p].amount.value > 0
              /\ db'.points[w] = db.points[w] - calls[p].amount.value
         /\ calls'[p].pc = "rejected" => db' = db

\* C30: for every requested amount (zero, negative and missing included)
\* and every interleaving of spends of one wallet, a successful /spend
\* lowers the points by the requested positive amount, the balance stays at
\* or above 0, and a rejected /spend leaves the balance and the transaction
\* log unchanged.
C30_SpendSafe == []C30_NonNegative /\ [][C30_Lowers]_vars

====
